---- MODULE Spec2Model ----
(***************************************************************************)
(* A model of svg_stack.py: the box layout (BoxLayout.get_size, _calc_box, *)
(* render), the accumulator (LayoutAccumulator) and the merge step         *)
(* (_make_finalized_root, fix_ids).                                        *)
(*                                                                         *)
(* Numbers.  The code computes with Python floats.  The model computes     *)
(* with exact rationals <<n, d>> (d > 0, lowest terms), so that            *)
(* slack/total_stretch and 0.5*(a-b) have their mathematical value.        *)
(* Strings are sequences of tokens (one-character strings, and the token   *)
(* "url(#" for that five character sequence).                             *)
(* An optional value is <<>> (None) or <<v>>.                              *)
(***************************************************************************)
EXTENDS Integers, Sequences, FiniteSets, TLC

None == <<>>
Some(v) == <<v>>

(***************************** rationals ***********************************)
Abs(n) == IF n < 0 THEN -n ELSE n

RECURSIVE GCD(_, _)
GCD(a, b) == IF b = 0 THEN a ELSE GCD(b, a % b)

\* the rational n/d in lowest terms with a positive denominator
Q(n, d) ==
  LET g == GCD(Abs(n), Abs(d))
      s == IF d < 0 THEN -1 ELSE 1
  IN <<(s * n) \div g, (s * d) \div g>>

QI(n) == <<n, 1>>
QAdd(a, b) == Q(a[1] * b[2] + b[1] * a[2], a[2] * b[2])
QSub(a, b) == Q(a[1] * b[2] - b[1] * a[2], a[2] * b[2])
QMul(a, b) == Q(a[1] * b[1], a[2] * b[2])
QDiv(a, b) == Q(a[1] * b[2], a[2] * b[1])
QLt(a, b) == a[1] * b[2] < b[1] * a[2]
QMax(a, b) == IF QLt(a, b) THEN b ELSE a
QHalf == Q(1, 2)

(****************************** geometry ***********************************)
Size(w, h) == [width |-> w, height |-> h]

LeftToRight == "LeftToRight"
RightToLeft == "RightToLeft"
TopToBottom == "TopToBottom"
BottomToTop == "BottomToTop"

AlignLeft == 1
AlignRight == 2
AlignHCenter == 4
AlignTop == 32
AlignBottom == 64
AlignVCenter == 128
AlignCenter == AlignHCenter + AlignVCenter

\* flag & alignment, for a flag that is one bit
HasFlag(flag, alignment) == (alignment \div flag) % 2 = 1

(************************ BoxLayout._calc_box *******************************)
\* the position and size of an item of size item_sz aligned in the box
\* (in_pos, in_sz): an axis with no flag set is filled
calc_box(in_pos, in_sz, item_sz, alignment) ==
  LET h == IF HasFlag(AlignLeft, alignment)
             THEN <<in_pos[1], item_sz.width>>
           ELSE IF HasFlag(AlignRight, alignment)
             THEN <<QSub(QAdd(in_pos[1], in_sz.width), item_sz.width), item_sz.width>>
           ELSE IF HasFlag(AlignHCenter, alignment)
             THEN <<QAdd(in_pos[1], QMul(QHalf, QSub(in_sz.width, item_sz.width))),
                    item_sz.width>>
           ELSE <<in_pos[1], in_sz.width>>
      v == IF HasFlag(AlignTop, alignment)
             THEN <<in_pos[2], item_sz.height>>
           ELSE IF HasFlag(AlignBottom, alignment)
             THEN <<QSub(QAdd(in_pos[2], in_sz.height), item_sz.height), item_sz.height>>
           ELSE IF HasFlag(AlignVCenter, alignment)
             THEN <<QAdd(in_pos[2], QMul(QHalf, QSub(in_sz.height, item_sz.height))),
                    item_sz.height>>
           ELSE <<in_pos[2], in_sz.height>>
  IN [pos |-> <<h[1], v[1]>>, size |-> Size(h[2], v[2])]

(************************* the objects of a run *****************************)
\* st is the heap of one composition run:
\*   st.leaves   : leaf id   -> SVGFile / SVGFileNoLayout object
\*   st.layouts  : layout id -> BoxLayout object
\*   st.calls    : the get_size calls made so far, each with its local values
\*   st.err      : "none", or the exception that is propagating
NoError == "none"

IsLayoutItem(it) == it.kind = "layout"
IsNoLayout(st, it) == it.kind = "leaf" /\ st.leaves[it.id].cls = "SVGFileNoLayout"

\* SVGFileBase.get_size: the current size
LeafGetSize(lf) == Size(lf.width_px, lf.height_px)

\* SVGFileBase._set_size
LeafSetSize(lf, size) == [lf EXCEPT !.width_px = size.width, !.height_px = size.height]

\* SVGFile._set_coord and SVGFileNoLayout._set_coord
LeafSetCoord(lf, coord) ==
  IF lf.cls = "SVGFileNoLayout"
    THEN [lf EXCEPT !.coord = Some(<<QAdd(coord[1], lf.x_offset),
                                     QAdd(coord[2], lf.y_offset)>>)]
    ELSE [lf EXCEPT !.coord = Some(coord)]

\* item._set_coord( item_pos ); item._set_size( final_item_size )
PlaceItem(st, it, pos, size) ==
  IF IsLayoutItem(it)
    THEN [st EXCEPT !.layouts[it.id].coord = pos, !.layouts[it.id].size = Some(size)]
    ELSE [st EXCEPT !.leaves[it.id] = LeafSetSize(LeafSetCoord(@, pos), size)]

Horizontal(direction) == direction \in {LeftToRight, RightToLeft}

MainOf(direction, size) == IF Horizontal(direction) THEN size.width ELSE size.height
CrossOf(direction, size) == IF Horizontal(direction) THEN size.height ELSE size.width

RECURSIVE SumStretch(_, _)
SumStretch(items, i) ==
  IF i > Len(items) THEN 0 ELSE items[i].stretch + SumStretch(items, i + 1)

\* the allotted main-axis length of entry i in pass 2
NewDimLength(direction, old_item_size, stretch, stretch_inc, stretch_hack, is_last_item, dim_unfilled_length) ==
  IF Horizontal(direction)
    THEN IF stretch_hack /\ is_last_item
           THEN QAdd(old_item_size.width, dim_unfilled_length)
           ELSE QAdd(old_item_size.width, QMul(QI(stretch), stretch_inc))
    ELSE IF stretch_hack /\ is_last_item
           THEN QAdd(old_item_size.width, dim_unfilled_length)
           ELSE QAdd(old_item_size.height, QMul(QI(stretch), stretch_inc))

\* what pass 1 adds to cum_dim after a counted entry
Pass1Spacing(lay, item_number) ==
  IF item_number < Len(lay.items) THEN lay.spacing ELSE QI(0)

\* pass 2 without the test of the last entry: spacing after every entry
Pass2SpacingAfterEvery(lay, is_last_item) == lay.spacing

\* what pass 2 adds to cum_dim after an entry
Pass2Spacing(lay, is_last_item) ==
  IF ~is_last_item THEN lay.spacing ELSE QI(0)

\* child_box_coord with the reversed directions placed as the forward ones
ChildBoxCoordReversedAsForward(lay, cum_dim) ==
  IF Horizontal(lay.direction) THEN Some(<<cum_dim, lay.contents_margins>>)
  ELSE Some(<<lay.contents_margins, cum_dim>>)

\* the allotted box's origin, before self._coord is added
ChildBoxCoord(lay, cum_dim) ==
  IF lay.direction = LeftToRight THEN Some(<<cum_dim, lay.contents_margins>>)
  ELSE IF lay.direction = TopToBottom THEN Some(<<lay.contents_margins, cum_dim>>)
  ELSE None

RECURSIVE GetSize(_, _, _)
RECURSIVE Pass1(_, _, _, _, _)
RECURSIVE Pass2(_, _, _, _, _)

\* step 1: item.get_size(min_size=dim_min_size) of an entry in the flow,
\* [st, size]
Pass1ItemSize(st, it, dim_min_size) ==
  IF IsLayoutItem(it) THEN GetSize(st, it.id, Some(dim_min_size))
  ELSE [st |-> st, size |-> LeafGetSize(st.leaves[it.id])]

\* step 1: the loop's variables after entry i, of size item_size
Pass1Add(lay, i, acc, item_size) ==
  [cum_dim |-> QAdd(QAdd(acc.cum_dim, MainOf(lay.direction, item_size)),
                    Pass1Spacing(lay, i)),
   max_orth_dim |-> QMax(acc.max_orth_dim, CrossOf(lay.direction, item_size)),
   item_sizes |-> Append(acc.item_sizes, item_size)]

\* step 1 from entry i on, once r = [st, size] is the result of the entry's
\* get_size
Pass1Sized(L, dim_min_size, i, acc, r) ==
  IF r.st.err # NoError THEN [st |-> r.st, acc |-> acc]
  ELSE Pass1(r.st, L, dim_min_size, i + 1, Pass1Add(r.st.layouts[L], i, acc, r.size))

\* BoxLayout.get_size, step 1, from entry i on.  acc holds the loop's
\* variables: cum_dim, max_orth_dim, item_sizes.
Pass1(st, L, dim_min_size, i, acc) ==
  IF st.err # NoError \/ i > Len(st.layouts[L].items) THEN [st |-> st, acc |-> acc]
  ELSE IF IsNoLayout(st, st.layouts[L].items[i])
    THEN Pass1(st, L, dim_min_size, i + 1,
               [acc EXCEPT !.item_sizes = Append(@, Size(QI(0), QI(0)))])
    ELSE Pass1Sized(L, dim_min_size, i, acc,
                    Pass1ItemSize(st, st.layouts[L].items[i], dim_min_size))

\* step 2: new_item_size, the box allotted to an entry
NewItemSize(direction, orth_dim, new_dim_length) ==
  IF Horizontal(direction) THEN Size(new_dim_length, orth_dim)
  ELSE Size(orth_dim, new_dim_length)

\* step 2: item_size of an entry, [st, size]
Pass2ItemSize(st, it, new_item_size) ==
  IF IsNoLayout(st, it) THEN [st |-> st, size |-> Size(QI(0), QI(0))]
  ELSE IF IsLayoutItem(it) THEN GetSize(st, it.id, Some(new_item_size))
  ELSE [st |-> st, size |-> LeafGetSize(st.leaves[it.id])]

\* step 2 from entry i on, once the entry's box new_item_size and the result
\* r = [st, size] of its get_size are known
Pass2Sized(L, c, i, acc, new_item_size, r) ==
  LET lay == r.st.layouts[L]
      it == lay.items[i]
      is_last_item == (i + 1) > Len(lay.items)
      box == ChildBoxCoord(lay, acc.cum_dim)
      self_coord == lay.coord
      child_box_coord == <<QAdd(box[1][1], self_coord[1]),
                           QAdd(box[1][2], self_coord[2])>>
      placed == calc_box(child_box_coord, new_item_size, r.size, it.alignment)
  IN IF r.st.err # NoError THEN [st |-> r.st, acc |-> acc]
     ELSE IF box = None
       THEN [st |-> [r.st EXCEPT !.err = "NotImplementedError: direction"],
             acc |-> acc]
     ELSE Pass2(PlaceItem(r.st, it, placed.pos, placed.size), L, c, i + 1,
            [cum_dim |-> QAdd(QAdd(acc.cum_dim, MainOf(lay.direction, new_item_size)),
                              Pass2Spacing(lay, is_last_item)),
             new_item_sizes |-> Append(acc.new_item_sizes, new_item_size),
             box_coords |-> Append(acc.box_coords, child_box_coord)])

\* step 2 for entry i, once its box new_item_size is known
Pass2Item(st, L, c, i, acc, new_item_size) ==
  Pass2Sized(L, c, i, acc, new_item_size,
             Pass2ItemSize(st, st.layouts[L].items[i], new_item_size))

\* BoxLayout.get_size, step 2, from entry i on.  c holds the values step 2
\* reads (item_sizes, orth_dim, stretch_inc, stretch_hack,
\* dim_unfilled_length); acc holds cum_dim and, for the record of the call,
\* the allotted sizes and box origins.
Pass2(st, L, c, i, acc) ==
  IF st.err # NoError \/ i > Len(st.layouts[L].items) THEN [st |-> st, acc |-> acc]
  ELSE Pass2Item(st, L, c, i, acc,
         NewItemSize(st.layouts[L].direction, c.orth_dim,
                     NewDimLength(st.layouts[L].direction, c.item_sizes[i],
                                  st.layouts[L].items[i].stretch, c.stretch_inc,
                                  c.stretch_hack, (i + 1) > Len(st.layouts[L].items),
                                  c.dim_unfilled_length)))

\* the values get_size computes between its two loops, from min_size and the
\* variables acc that step 1 leaves
StretchValues(lay, min_size, acc) ==
  LET cum_dim1 == QAdd(acc.cum_dim, lay.contents_margins)
      total_stretch == SumStretch(lay.items, 1)
      dim_unfilled_length == QMax(QI(0), QSub(MainOf(lay.direction, min_size), cum_dim1))
  IN [item_sizes |-> acc.item_sizes,
      cum_dim1 |-> cum_dim1,
      orth_dim |-> acc.max_orth_dim,
      max_orth_dim |-> QAdd(acc.max_orth_dim, QMul(QI(2), lay.contents_margins)),
      total_stretch |-> total_stretch,
      dim_unfilled_length |-> dim_unfilled_length,
      stretch_hack |-> QLt(QI(0), dim_unfilled_length) /\ total_stretch = 0,
      stretch_inc |-> IF QLt(QI(0), dim_unfilled_length) /\ total_stretch # 0
                        THEN QDiv(dim_unfilled_length, QI(total_stretch))
                        ELSE QI(0)]

\* the end of get_size: the last margin, the size, and the record of the
\* call; p2 is what step 2 leaves
GetSizeEnd(L, min_size_opt, c, p2) ==
  LET lay == p2.st.layouts[L]
      cum_dim2 == QAdd(p2.acc.cum_dim, lay.contents_margins)
      size == IF Horizontal(lay.direction)
                THEN Size(cum_dim2, c.max_orth_dim) ELSE Size(c.max_orth_dim, cum_dim2)
      call == [layout |-> L, min_size |-> min_size_opt, items |-> lay.items,
               self_coord |-> lay.coord,
               item_sizes |-> c.item_sizes, cum_dim1 |-> c.cum_dim1,
               orth_dim |-> c.orth_dim, total_stretch |-> c.total_stretch,
               dim_unfilled_length |-> c.dim_unfilled_length,
               new_item_sizes |-> p2.acc.new_item_sizes,
               box_coords |-> p2.acc.box_coords, size |-> size]
  IN IF p2.st.err # NoError THEN [st |-> p2.st, size |-> Size(QI(0), QI(0))]
     ELSE [st |-> [p2.st EXCEPT !.layouts[L].size = Some(size),
                                !.calls = Append(@, call)],
           size |-> size]

\* step 2 of get_size, from the heap st1 and the values c step 1 leaves
GetSizeStep2(L, min_size_opt, st1, c) ==
  GetSizeEnd(L, min_size_opt, c,
             Pass2(st1, L, c, 1,
                   [cum_dim |-> st1.layouts[L].contents_margins,
                    new_item_sizes |-> <<>>, box_coords |-> <<>>]))

\* get_size after step 1; p1 is what step 1 leaves
GetSizeStep1Done(L, min_size_opt, min_size, p1) ==
  IF p1.st.err # NoError THEN [st |-> p1.st, size |-> Size(QI(0), QI(0))]
  ELSE GetSizeStep2(L, min_size_opt, p1.st,
                    StretchValues(p1.st.layouts[L], min_size, p1.acc))

\* BoxLayout.get_size(min_size): the size, and the heap after the call
GetSize(st, L, min_size_opt) ==
  LET lay == st.layouts[L]
      min_size == IF min_size_opt = None THEN Size(QI(0), QI(0)) ELSE min_size_opt[1]
      orth0 == CrossOf(lay.direction, min_size)
      dim_min_size == IF Horizontal(lay.direction)
                        THEN Size(QI(0), orth0) ELSE Size(orth0, QI(0))
  IN GetSizeStep1Done(L, min_size_opt, min_size,
       Pass1(st, L, dim_min_size, 1,
             [cum_dim |-> lay.contents_margins, max_orth_dim |-> orth0,
              item_sizes |-> <<>>]))

(***************************** documents ************************************)
SVG_NS == "http://www.w3.org/2000/svg"
XLINK_NS == "http://www.w3.org/1999/xlink"
SODIPODI_NS == "http://sodipodi.sourceforge.net/DTD/sodipodi-0.dtd"

\* the key None of an lxml nsmap: the default namespace
DefaultPrefix == "(default)"

\* An element is [nid, ns, tag, id, attrs, children]: nid is the identity of
\* the element object (lxml moves the objects of the source trees into the
\* output tree): <<leaf id, place in the file>> for a parsed element,
\* <<0, fname_num>> for a wrapper group; id is None or Some(string), attrs
\* is a sequence of [ns, name, value], without the attribute id.
Elem(nid, ns, tag, id, attrs, children) ==
  [nid |-> nid, ns |-> ns, tag |-> tag, id |-> id, attrs |-> attrs,
   children |-> children]

Attr(ns, name, value) == [ns |-> ns, name |-> name, value |-> value]

URL == "url(#"

RECURSIVE Dec(_)
\* '%d' % n, n >= 0
Dec(n) ==
  LET digit == <<"0", "1", "2", "3", "4", "5", "6", "7", "8", "9">>[(n % 10) + 1]
  IN IF n < 10 THEN <<digit>> ELSE Dec(n \div 10) \o <<digit>>

\* 'id%d:' % fname_num
fix_id_prefix(fname_num) == <<"i", "d">> \o Dec(fname_num) \o <<":">>

\* 'id{}'.format(fname_num)
WrapperId(fname_num) == <<"i", "d">> \o Dec(fname_num)

\* value.startswith('#')
StartsWithHash(value) == Len(value) > 0 /\ value[1] = "#"

\* re.sub(relIRI_re, r'url(#' + prefix + r'\1)', value) with
\* relIRI_re = url\(#(.*)\): the leftmost "url(#" that some ")" follows
\* matches, and the greedy group runs to the last ")" of the value, so at
\* most one match is replaced.
ReSub(prefix, value) ==
  LET starts == {p \in 1..Len(value) :
                   value[p] = URL /\ \E q \in (p + 1)..Len(value) : value[q] = ")"}
  IN IF starts = {} THEN value
     ELSE LET p == CHOOSE x \in starts : \A y \in starts : x <= y
              q == CHOOSE x \in (p + 1)..Len(value) :
                     /\ value[x] = ")"
                     /\ \A y \in (x + 1)..Len(value) : value[y] # ")"
          IN SubSeq(value, 1, p) \o prefix \o SubSeq(value, p + 1, q - 1)
               \o <<")">> \o SubSeq(value, q + 1, Len(value))

\* the rewrite of one attribute other than id (the body of the loop over
\* elem.attrib.keys())
FixAttr(prefix, a) ==
  IF a.ns = XLINK_NS
    THEN IF StartsWithHash(a.value)
           THEN [a EXCEPT !.value = <<"#">> \o prefix \o SubSeq(a.value, 2, Len(a.value))]
           ELSE a
    ELSE [a EXCEPT !.value = ReSub(prefix, a.value)]

\* the rewrite of the attribute id: prefixed, then visited by the loop over
\* the attributes like any attribute that is not a link
FixIdAttr(prefix, id) ==
  IF id = None THEN None ELSE Some(ReSub(prefix, prefix \o id[1]))

RECURSIVE fix_ids(_, _)
fix_ids(elem, prefix) ==
  LET self == IF elem.ns = SVG_NS
                THEN [elem EXCEPT !.id = FixIdAttr(prefix, elem.id),
                                  !.attrs = [i \in 1..Len(elem.attrs) |->
                                               FixAttr(prefix, elem.attrs[i])]]
                ELSE elem
  IN [self EXCEPT !.children = [i \in 1..Len(elem.children) |->
                                  fix_ids(elem.children[i], prefix)]]

(**************************** LayoutAccumulator *****************************)
InSeq(x, s) == \E i \in 1..Len(s) : s[i] = x

NewAccum == [svgfiles |-> <<>>, svgfiles_no_layout |-> <<>>, raw_elements |-> <<>>,
             size |-> None]

\* add_svg_file without the membership test
add_svg_file_unchecked(accum, svgfile) ==
  [accum |-> [accum EXCEPT !.svgfiles = Append(@, svgfile)], err |-> NoError]

\* add_svg_file: [accum, err]
add_svg_file(accum, svgfile) ==
  IF InSeq(svgfile, accum.svgfiles)
    THEN [accum |-> accum, err |-> "ValueError: cannot accumulate SVGFile instance twice"]
    ELSE [accum |-> [accum EXCEPT !.svgfiles = Append(@, svgfile)], err |-> NoError]

\* add_svg_file_no_layout: [accum, err]
add_svg_file_no_layout(accum, svgfile) ==
  IF InSeq(svgfile, accum.svgfiles_no_layout)
    THEN [accum |-> accum,
          err |-> "ValueError: cannot accumulate SVGFileNoLayout instance twice"]
    ELSE [accum |-> [accum EXCEPT !.svgfiles_no_layout = Append(@, svgfile)],
          err |-> NoError]

add_raw_element(accum, elem) == [accum EXCEPT !.raw_elements = Append(@, elem)]

(***************************** BoxLayout.render *****************************)
DebugBox(stroke, coord, sz) ==
  [kind |-> "rect", stroke |-> stroke, x |-> coord[1], y |-> coord[2],
   width |-> sz.width, height |-> sz.height]

\* the group that carries an entry's xml, translated to the item's coordinate
Extra(coord, xml) == [kind |-> "g", translate |-> coord, xml |-> xml]

RECURSIVE Render(_, _, _, _, _, _)
RECURSIVE RenderItems(_, _, _, _, _, _)

\* the body of the loop of render for one entry, before the entry's xml:
\* a nested layout is rendered, a leaf is registered with the accumulator
RenderItem(st, accum, it, level, debug_boxes) ==
  IF IsLayoutItem(it)
    THEN Render(st, accum, it.id, st.layouts[it.id].size, level + 1, debug_boxes)
  ELSE
    LET lf == st.leaves[it.id]
        a == IF lf.cls = "SVGFile" THEN add_svg_file(accum, it.id)
             ELSE add_svg_file_no_layout(accum, it.id)
        stroke == IF lf.cls = "SVGFile" THEN "red" ELSE "green"
    IN [st |-> [st EXCEPT !.err = a.err],
        accum |-> IF a.err = NoError /\ debug_boxes > 0
                    THEN add_raw_element(a.accum,
                           DebugBox(stroke, lf.coord[1], LeafGetSize(lf)))
                    ELSE a.accum]

\* the entry's xml, then the entries after entry i; r = [st, accum] is what
\* the body of the loop leaves for entry i
RenderItemsAfter(L, i, level, debug_boxes, r) ==
  LET it == r.st.layouts[L].items[i]
      coord == IF IsLayoutItem(it) THEN r.st.layouts[it.id].coord
               ELSE r.st.leaves[it.id].coord[1]
  IN IF r.st.err # NoError THEN r
     ELSE RenderItems(r.st,
                      IF it.xml # None
                        THEN add_raw_element(r.accum, Extra(coord, it.xml[1]))
                        ELSE r.accum,
                      L, i + 1, level, debug_boxes)

\* the loop over self._items of render, from entry i on: [st, accum]
RenderItems(st, accum, L, i, level, debug_boxes) ==
  IF st.err # NoError \/ i > Len(st.layouts[L].items) THEN [st |-> st, accum |-> accum]
  ELSE RenderItemsAfter(L, i, level, debug_boxes,
                        RenderItem(st, accum, st.layouts[L].items[i], level, debug_boxes))

\* render after self.get_size; g = [st, size] is the result of get_size
RenderSized(accum, L, level, debug_boxes, g) ==
  LET a1 == IF level = 0 THEN [accum EXCEPT !.size = Some(g.size)] ELSE accum
      a2 == IF debug_boxes > 0
              THEN add_raw_element(a1, DebugBox("black", g.st.layouts[L].coord, g.size))
              ELSE a1
  IN IF g.st.err # NoError THEN [st |-> g.st, accum |-> accum]
     ELSE RenderItems(g.st, a2, L, 1, level, debug_boxes)

\* BoxLayout.render(accum, min_size, level, debug_boxes): [st, accum]
Render(st, accum, L, min_size_opt, level, debug_boxes) ==
  RenderSized(accum, L, level, debug_boxes, GetSize(st, L, min_size_opt))

(******************* LayoutAccumulator._make_finalized_root *****************)
Keys(nsmap) == {b[1] : b \in nsmap}
Lookup(nsmap, key) == (CHOOSE b \in nsmap : b[1] = key)[2]

NSMAP0 == {<<DefaultPrefix, SVG_NS>>, <<"sodipodi", SODIPODI_NS>>}

\* the leaves whose root's nsmap is collected
NsmapSources(accum) == accum.svgfiles

RECURSIVE CollectNsmap(_, _, _, _)
\* the loop that fills NSMAP, from the i-th source on: [nsmap, err]
CollectNsmap(leaves, sources, i, NSMAP) ==
  IF i > Len(sources) THEN [nsmap |-> NSMAP, err |-> NoError]
  ELSE
    LET own == leaves[sources[i]].root.nsmap
        failed == \E b \in own :
                    \/ b[1] \in Keys(NSMAP) /\ b[2] # Lookup(NSMAP, b[1])
                    \/ b[1] \notin Keys(NSMAP) /\ b[1] = "svg"
                         /\ b[2] # Lookup(NSMAP, DefaultPrefix)
    IN IF failed THEN [nsmap |-> NSMAP, err |-> "AssertionError: namespace"]
       ELSE CollectNsmap(leaves, sources, i + 1,
              NSMAP \cup {b \in own : b[1] \notin Keys(NSMAP) /\ b[1] # "svg"})

\* work_list with the no-layout leaves numbered before the flowed ones
WorkListNoLayoutFirst(accum) ==
  [k \in 1..(Len(accum.svgfiles) + Len(accum.svgfiles_no_layout)) |->
     IF k <= Len(accum.svgfiles_no_layout)
       THEN <<k - 1, FALSE, accum.svgfiles_no_layout[k]>>
       ELSE <<k - 1, TRUE, accum.svgfiles[k - Len(accum.svgfiles_no_layout)]>>]

\* work_list: <<fname_num, do_layout, svgfile>>
WorkList(accum) ==
  [k \in 1..(Len(accum.svgfiles) + Len(accum.svgfiles_no_layout)) |->
     IF k <= Len(accum.svgfiles)
       THEN <<k - 1, TRUE, accum.svgfiles[k]>>
       ELSE <<k - 1, FALSE, accum.svgfiles_no_layout[k - Len(accum.svgfiles)]>>]

IsDefs(child) == child.ns = SVG_NS /\ child.tag = "defs"
\* the tag the code compares with is '{sodipodi namespace}:namedview'
IsNamedview(child) == child.ns = SODIPODI_NS /\ child.tag = ":namedview"
IsMetadata(child) == child.ns = SVG_NS /\ child.tag = "metadata"

RECURSIVE Flatten(_)
Flatten(seqs) == IF seqs = <<>> THEN <<>> ELSE Head(seqs) \o Flatten(Tail(seqs))

\* the children of the source root that go to root_defs, rewritten
Hoisted(origelem, prefix) ==
  LET defs == SelectSeq(origelem.children, IsDefs)
      subs == Flatten([i \in 1..Len(defs) |-> defs[i].children])
  IN [i \in 1..Len(subs) |-> fix_ids(subs[i], prefix)]

\* the children of the source root that are appended to the wrapper
Copied(origelem) ==
  LET keep(child) == ~IsDefs(child) /\ ~IsNamedview(child) /\ ~IsMetadata(child)
  IN SelectSeq(origelem.children, keep)

\* the wrapper group of a leaf after fix_ids( elem, fix_id_prefix )
Wrapper(fname_num, origelem) ==
  fix_ids(Elem(<<0, fname_num>>, SVG_NS, "g", Some(WrapperId(fname_num)), <<>>,
               Copied(origelem)),
          fix_id_prefix(fname_num))

\* the refusal limited to leaves without a viewBox
RescaleRefusedWithoutViewBox(do_layout, svgfile) ==
  /\ do_layout
  /\ svgfile.root.viewBox = None
  /\ (svgfile.orig_width_px # svgfile.width_px
      \/ svgfile.orig_height_px # svgfile.height_px)

\* whether the merge refuses the leaf: rescaling not implemented
RescaleRefused(do_layout, svgfile) ==
  do_layout /\ (svgfile.orig_width_px # svgfile.width_px
                \/ svgfile.orig_height_px # svgfile.height_px)

\* elem.attrib['transform']
Transform(svgfile) ==
  LET translate_x == svgfile.coord[1][1]
      translate_y == svgfile.coord[1][2]
      vb == svgfile.root.viewBox
  IN IF vb # None
       THEN [kind |-> "matrix",
             sx |-> QDiv(svgfile.width_px, vb[1][3]),
             sy |-> QDiv(svgfile.height_px, vb[1][4]),
             tx |-> QSub(translate_x, vb[1][1]),
             ty |-> QSub(translate_y, vb[1][2])]
       ELSE [kind |-> "translate", sx |-> QI(1), sy |-> QI(1),
             tx |-> translate_x, ty |-> translate_y]

RECURSIVE MergeLeaves(_, _, _, _)
\* the loop over work_list, from its k-th entry on.
\* acc is [defs, groups, err]
MergeLeaves(leaves, work_list, k, acc) ==
  IF acc.err # NoError \/ k > Len(work_list) THEN acc
  ELSE
    LET fname_num == work_list[k][1]
        do_layout == work_list[k][2]
        svgfile == leaves[work_list[k][3]]
        group == [role |-> "g", num |-> fname_num, leaf |-> work_list[k][3],
                  elem |-> Wrapper(fname_num, svgfile.root),
                  transform |-> Transform(svgfile)]
        defs == acc.defs \o Hoisted(svgfile.root, fix_id_prefix(fname_num))
    IN IF RescaleRefused(do_layout, svgfile)
         THEN [acc EXCEPT !.err = "NotImplementedError: rescaling"]
         ELSE MergeLeaves(leaves, work_list, k + 1,
                [defs |-> defs, groups |-> Append(acc.groups, group),
                 err |-> NoError])

\* _make_finalized_root: [err, root]; root is [nsmap, defs, groups, raw,
\* width, height], its children being root_defs (holding defs), the groups
\* and the raw elements, in this order
make_finalized_root(leaves, accum) ==
  LET ns == CollectNsmap(leaves, NsmapSources(accum), 1, NSMAP0)
      m == MergeLeaves(leaves, WorkList(accum), 1,
                       [defs |-> <<>>, groups |-> <<>>, err |-> NoError])
  IN IF ns.err # NoError THEN [err |-> ns.err, root |-> None]
     ELSE IF m.err # NoError THEN [err |-> m.err, root |-> None]
     ELSE [err |-> NoError,
           root |-> Some([nsmap |-> ns.nsmap, defs |-> m.defs, groups |-> m.groups,
                          raw |-> accum.raw_elements,
                          width |-> accum.size[1].width,
                          height |-> accum.size[1].height])]

\* the children of the finalized root, in document order: root_defs is made
\* first by SubElement, every wrapper is made by SubElement in the loop over
\* work_list (root.append( elem ) finds it last already), the raw elements
\* are appended after the loop
RootChildren(root) ==
  <<[role |-> "defs", children |-> root.defs]>> \o root.groups \o root.raw

(******************************* the run *************************************)
VARIABLES
  leaves,    \* the SVGFile / SVGFileNoLayout objects, by leaf id 1..Len(leaves)
  layouts,   \* the BoxLayout objects, by layout id; layout 1 is the document's
  calls,     \* the get_size calls of the run, with their local values
  accum,     \* the LayoutAccumulator
  err,       \* NoError, or the exception that ended the run
  pc,        \* "build", "rendered", "merged" or "error"; in Document.save
             \* also "opened" and "saved"
  out,       \* None, or Some(the finalized root)
  fd         \* the output destination: "untouched", "opened" (created or
             \* truncated, nothing written) or "written"

vars == <<leaves, layouts, calls, accum, err, pc, out, fd>>

\* the entries of all layouts together are at most MaxItems, the layouts at
\* most MaxLayouts
MaxItems == 3
MaxLayouts == 2

\* a source file: the root's width and height attributes in px (None when
\* the root has none), and the parsed root
File(size, viewBox, nsmap, children) ==
  [size |-> size, root |-> [viewBox |-> viewBox, nsmap |-> nsmap, children |-> children]]

RECURSIVE Parsed(_, _)
\* etree.parse(fname): every parse makes element objects of its own; an
\* element's identity is <<the leaf that parsed it, its place in the file>>
Parsed(id, elem) ==
  [elem EXCEPT !.nid = <<id, elem.nid>>,
               !.children = [i \in 1..Len(elem.children) |-> Parsed(id, elem.children[i])]]

\* SVGFileBase.__init__ / SVGFileNoLayout.__init__ of the leaf with this id
NewLeaf(id, cls, file, x, y) ==
  LET vb == file.root.viewBox
      natural == IF file.size # None THEN file.size[1] ELSE Size(vb[1][3], vb[1][4])
  IN [cls |-> cls,
      root |-> [file.root EXCEPT !.children =
                  [i \in 1..Len(file.root.children) |->
                     Parsed(id, file.root.children[i])]],
      width_px |-> natural.width, height_px |-> natural.height,
      orig_width_px |-> natural.width, orig_height_px |-> natural.height,
      coord |-> None, x_offset |-> x, y_offset |-> y]

\* BoxLayout.__init__, with the value given to _contents_margins (the class
\* has no setter for it: a caller assigns the attribute)
NewLayout(direction, margin) ==
  [direction |-> direction, items |-> <<>>, contents_margins |-> margin,
   spacing |-> QI(0), coord |-> <<QI(0), QI(0)>>, size |-> None]

Item(kind, id, stretch, alignment, xml) ==
  [kind |-> kind, id |-> id, stretch |-> stretch, alignment |-> alignment, xml |-> xml]

RECURSIVE CountItems(_, _)
CountItems(lays, i) ==
  IF i > Len(lays) THEN 0 ELSE Len(lays[i].items) + CountItems(lays, i + 1)

Room == pc = "build" /\ CountItems(layouts, 1) < MaxItems

\* self._items.append(...)
AppendItem(L, it) == layouts' = [layouts EXCEPT ![L].items = Append(@, it)]

\* BoxLayout.addSVG(svg_file, stretch, alignment, xml)
addSVG(Files, Stretches, Alignments, Xmls) ==
  /\ Room
  /\ \E L \in 1..Len(layouts), stretch \in Stretches, alignment \in Alignments,
        xml \in Xmls :
       \/ \E file \in Files :           \* svg_file is a file name
            /\ leaves' = Append(leaves, NewLeaf(Len(leaves) + 1, "SVGFile", file,
                                             QI(0), QI(0)))
            /\ AppendItem(L, Item("leaf", Len(leaves) + 1, stretch, alignment, xml))
       \/ \E id \in 1..Len(leaves) :    \* svg_file is an SVGFile instance
            /\ leaves[id].cls = "SVGFile"
            /\ leaves' = leaves
            /\ AppendItem(L, Item("leaf", id, stretch, alignment, xml))
  /\ UNCHANGED <<calls, accum, err, pc, out, fd>>

\* BoxLayout.addSVGNoLayout(svg_file, x, y, xml)
addSVGNoLayout(Files, Offsets, Xmls) ==
  /\ Room
  /\ \E L \in 1..Len(layouts), xml \in Xmls :
       \/ \E file \in Files, off \in Offsets :
            /\ leaves' = Append(leaves, NewLeaf(Len(leaves) + 1, "SVGFileNoLayout", file,
                                             off[1], off[2]))
            /\ AppendItem(L, Item("leaf", Len(leaves) + 1, 0, 0, xml))
       \/ \E id \in 1..Len(leaves) :    \* svg_file is an SVGFileNoLayout instance
            /\ leaves[id].cls = "SVGFileNoLayout"
            /\ leaves' = leaves
            /\ AppendItem(L, Item("leaf", id, 0, 0, xml))
  /\ UNCHANGED <<calls, accum, err, pc, out, fd>>

\* HBoxLayout() or VBoxLayout(), and BoxLayout.addLayout(layout, stretch) on
\* the document's layout
addLayout(Directions, Stretches) ==
  /\ Room
  /\ Len(layouts) < MaxLayouts
  /\ \E direction \in Directions, stretch \in Stretches :
       layouts' = Append([layouts EXCEPT ![1].items =
                            Append(@, Item("layout", Len(layouts) + 1, stretch, 0, None))],
                         NewLayout(direction, QI(0)))
  /\ UNCHANGED <<leaves, calls, accum, err, pc, out, fd>>

\* BoxLayout.setSpacing(spacing), on the layouts in Ls
setSpacing(Ls, Spacings) ==
  /\ pc = "build"
  /\ \E L \in Ls \cap (1..Len(layouts)), spacing \in Spacings :
       /\ layouts[L].spacing # spacing
       /\ layouts' = [layouts EXCEPT ![L].spacing = spacing]
  /\ UNCHANGED <<leaves, calls, accum, err, pc, out, fd>>

\* accum = LayoutAccumulator(); self._layout.render(accum, ...): the first
\* half of Document.save, or a caller's render with a minimum size
render(MinSizes, DebugLevels) ==
  /\ pc = "build"
  /\ \E min_size \in MinSizes, debug_boxes \in DebugLevels :
       \E r \in {Render([leaves |-> leaves, layouts |-> layouts, calls |-> calls,
                         err |-> NoError],
                        NewAccum, 1, min_size, 0, debug_boxes)} :
          /\ leaves' = r.st.leaves
          /\ layouts' = r.st.layouts
          /\ calls' = r.st.calls
          /\ accum' = r.accum
          /\ err' = r.st.err
          /\ pc' = IF r.st.err = NoError THEN "rendered" ELSE "error"
  /\ UNCHANGED <<out, fd>>

\* a caller's accum.add_svg_file(svgfile) or
\* accum.add_svg_file_no_layout(svgfile) on the accumulator of the run
accumulate ==
  /\ pc = "rendered"
  /\ \E id \in 1..Len(leaves) :
       \E a \in {IF leaves[id].cls = "SVGFile" THEN add_svg_file(accum, id)
                 ELSE add_svg_file_no_layout(accum, id)} :
          /\ accum' = a.accum
          /\ err' = a.err
          /\ pc' = IF a.err = NoError THEN "rendered" ELSE "error"
  /\ UNCHANGED <<leaves, layouts, calls, out, fd>>

\* accum.tostring(): _make_finalized_root
merge ==
  /\ pc = "rendered"
  /\ \E m \in {make_finalized_root(leaves, accum)} :
        /\ err' = m.err
        /\ out' = m.root
        /\ pc' = IF m.err = NoError THEN "merged" ELSE "error"
  /\ UNCHANGED <<leaves, layouts, calls, accum, fd>>

\* main: fd = open(options.outfile, mode='w'), before the layout is built
\* (or a caller that opens the file object it will pass to Document.save)
open_outfile ==
  /\ pc = "build"
  /\ leaves = <<>>
  /\ Len(layouts) = 1
  /\ fd = "untouched"
  /\ fd' = "opened"
  /\ UNCHANGED <<leaves, layouts, calls, accum, err, pc, out>>

\* Document.save after self._layout.render: fileobj is a file object
\* (already open) or a file name, opened here with mode 'w'
save_open ==
  /\ pc = "rendered"
  /\ fd' = "opened"
  /\ pc' = "opened"
  /\ UNCHANGED <<leaves, layouts, calls, accum, err, out>>

\* Document.save: buf = accum.tostring(pretty_print=True), then the writes
save_write ==
  /\ pc = "opened"
  /\ \E m \in {make_finalized_root(leaves, accum)} :
        /\ err' = m.err
        /\ out' = m.root
        /\ pc' = IF m.err = NoError THEN "saved" ELSE "error"
        /\ fd' = IF m.err = NoError THEN "written" ELSE fd
  /\ UNCHANGED <<leaves, layouts, calls, accum>>

InitWith(Directions, Margins) ==
  /\ leaves = <<>>
  /\ \E direction \in Directions, margin \in Margins :
       layouts = <<NewLayout(direction, margin)>>
  /\ calls = <<>>
  /\ accum = NewAccum
  /\ err = NoError
  /\ pc = "build"
  /\ out = None
  /\ fd = "untouched"

(******************** the layouts of small documents *************************)
SmallNsmap == {<<DefaultPrefix, SVG_NS>>}

\* a.svg: 2 x 4, no viewBox; b.svg: 4 x 2, viewBox "1 2 2 1"
LayoutFiles ==
  {File(Some(Size(QI(2), QI(4))), None, SmallNsmap, <<>>),
   File(Some(Size(QI(4), QI(2))), Some(<<QI(1), QI(2), QI(2), QI(1)>>), SmallNsmap, <<>>)}

\* c.svg: no width and height, viewBox "0 0 3 3"
NoLayoutFiles ==
  {File(None, Some(<<QI(0), QI(0), QI(3), QI(3)>>), SmallNsmap, <<>>)}

LayoutStretches == {0, 1}
LayoutAlignments == {0, AlignCenter}
LayoutOffsets == {<<QI(1), QI(2)>>}
LayoutSpacings == {QI(0), QI(1)}
LayoutMargins == {QI(0), QI(1)}
LayoutMinSizes == {None, Some(Size(QI(12), QI(12)))}
ForwardDirections == {LeftToRight, TopToBottom}
AllDirections == {LeftToRight, RightToLeft, TopToBottom, BottomToTop}

Init == InitWith(ForwardDirections, LayoutMargins)

Next ==
  \/ addSVG(LayoutFiles, LayoutStretches, LayoutAlignments, {None})
  \/ addSVGNoLayout(NoLayoutFiles, LayoutOffsets, {None})
  \/ addLayout(ForwardDirections, LayoutStretches)
  \/ setSpacing({1}, LayoutSpacings)
  \/ render(LayoutMinSizes, {0})
  \/ accumulate
  \/ merge

Spec == Init /\ [][Next]_vars

(******************** runs of flowed leaves only ****************************)
\* a root layout of flowed leaves with stretch 0, every margin, spacing and
\* direction, sized by render with no minimum size
InitFlow == InitWith(ForwardDirections, LayoutMargins)

NextFlow ==
  \/ addSVG(LayoutFiles, {0}, LayoutAlignments, {None})
  \/ setSpacing({1}, LayoutSpacings)
  \/ render({None}, {0})

SpecFlow == InitFlow /\ [][NextFlow]_vars

(******************** runs up to the merge step *****************************)
\* one layout of flowed and no-layout leaves, rendered with and without a
\* minimum size, then merged
InitMerge == InitWith(ForwardDirections, {QI(0)})

NextMerge ==
  \/ addSVG(LayoutFiles, {0}, LayoutAlignments, {None})
  \/ addSVGNoLayout(NoLayoutFiles, LayoutOffsets, {None})
  \/ render(LayoutMinSizes, {0})
  \/ merge

SpecMerge == InitMerge /\ [][NextMerge]_vars

(******************** runs that add leaves again ****************************)
\* leaves added, also a second time, to the document's layout and to a
\* nested layout, then registered by render or directly
InitDup == InitWith({LeftToRight}, {QI(0)})

NextDup ==
  \/ addSVG(NoLayoutFiles, {0}, {AlignCenter}, {None})
  \/ addSVGNoLayout(NoLayoutFiles, LayoutOffsets, {None})
  \/ addLayout({LeftToRight}, {0})
  \/ render({None}, {0})
  \/ accumulate
  \/ merge

SpecDup == InitDup /\ [][NextDup]_vars

(******************** layouts of every direction ****************************)
\* a root layout of flowed leaves in each of the four directions, sized by
\* render with no minimum size
InitReversed == InitWith(AllDirections, LayoutMargins)

NextReversed ==
  \/ addSVG(LayoutFiles, {0}, LayoutAlignments, {None})
  \/ setSpacing({1}, LayoutSpacings)
  \/ render({None}, {0})

SpecReversed == InitReversed /\ [][NextReversed]_vars

(******************** runs of Document.save *********************************)
\* a layout of flowed leaves saved to a file name or, as main does, to a
\* file object opened before the layout is built
InitSave == InitWith(ForwardDirections, {QI(0)})

NextSave ==
  \/ open_outfile
  \/ addSVG(LayoutFiles, {0}, LayoutAlignments, {None})
  \/ setSpacing({1}, LayoutSpacings)
  \/ render({None}, {0})
  \/ save_open
  \/ save_write

SpecSave == InitSave /\ [][NextSave]_vars

(************************ the merge of small documents ***********************)
\* d1.svg: <defs><linearGradient id="x"/></defs>
\*         <rect fill="url(#x)"/> <use xlink:href="#x"/>
\* d2.svg: <g id="a"><path style="url(#a);url(#b)"/></g> <g id="b"/>,
\*         xmlns:p="u1"
\* d3.svg: <rect id="id0"/> <metadata/>, xmlns:p="u2"
DocFiles ==
  {File(Some(Size(QI(2), QI(2))), None,
        {<<DefaultPrefix, SVG_NS>>, <<"xlink", XLINK_NS>>},
        <<Elem(1, SVG_NS, "defs", None, <<>>,
               <<Elem(2, SVG_NS, "linearGradient", Some(<<"x">>), <<>>, <<>>)>>),
          Elem(3, SVG_NS, "rect", None, <<Attr("", "fill", <<URL, "x", ")">>)>>, <<>>),
          Elem(4, SVG_NS, "use", None, <<Attr(XLINK_NS, "href", <<"#", "x">>)>>, <<>>)>>),
   File(Some(Size(QI(2), QI(2))), None,
        {<<DefaultPrefix, SVG_NS>>, <<"p", "u1">>},
        <<Elem(1, SVG_NS, "g", Some(<<"a">>), <<>>,
               <<Elem(2, SVG_NS, "path", None,
                      <<Attr("", "style", <<URL, "a", ")", ";", URL, "b", ")">>)>>,
                      <<>>)>>),
          Elem(3, SVG_NS, "g", Some(<<"b">>), <<>>, <<>>)>>),
   File(Some(Size(QI(2), QI(2))), None,
        {<<DefaultPrefix, SVG_NS>>, <<"p", "u2">>},
        <<Elem(1, SVG_NS, "rect", Some(<<"i", "d", "0">>), <<>>, <<>>),
          Elem(2, SVG_NS, "metadata", None, <<>>, <<>>)>>)}

InitDoc == InitWith({LeftToRight}, {QI(0)})

NextDoc ==
  \/ addSVG(DocFiles, {0}, {AlignCenter}, {None})
  \/ addSVGNoLayout(DocFiles, {<<QI(0), QI(0)>>}, {None})
  \/ render({None}, {0})
  \/ merge

SpecDoc == InitDoc /\ [][NextDoc]_vars

(******************** the order of the merged output ************************)
\* d1.svg alone, flowed (also with xml) and no-layout, in the document's
\* layout and in a nested one, rendered with and without debug boxes
OrderFiles == {f \in DocFiles : <<"xlink", XLINK_NS>> \in f.root.nsmap}
OrderXmls == {None, Some("mark")}

InitOrder == InitWith({LeftToRight}, {QI(0)})

NextOrder ==
  \/ addSVG(OrderFiles, {0}, {AlignCenter}, OrderXmls)
  \/ addSVGNoLayout(OrderFiles, {<<QI(0), QI(0)>>}, {None})
  \/ addLayout({TopToBottom}, {0})
  \/ render({None}, {0, 1})
  \/ merge

SpecOrder == InitOrder /\ [][NextOrder]_vars

(****************************** the claims ***********************************)
RECURSIVE SumMain(_, _, _)
\* the sum of the natural main-axis extents of the leaves of entries 1..n
SumMain(direction, items, n) ==
  IF n = 0 THEN QI(0)
  ELSE QAdd(SumMain(direction, items, n - 1),
            MainOf(direction, Size(leaves[items[n].id].orig_width_px,
                                   leaves[items[n].id].orig_height_px)))

RECURSIVE MaxCross(_, _, _)
\* the maximum of the natural cross-axis extents of the leaves of entries 1..n
MaxCross(direction, items, n) ==
  IF n = 0 THEN QI(0)
  ELSE QMax(MaxCross(direction, items, n - 1),
            CrossOf(direction, Size(leaves[items[n].id].orig_width_px,
                                    leaves[items[n].id].orig_height_px)))

\* <<main, cross>> as <<x, y>> in this direction
AsCoord(direction, main, cross) ==
  IF Horizontal(direction) THEN <<main, cross>> ELSE <<cross, main>>

\* the calls C1 is about: the document's layout sized with no minimum size,
\* its entries (at least one) all flowed leaves with stretch 0
C1_Case(c) ==
  /\ c.layout = 1
  /\ c.min_size = None
  /\ Len(c.items) >= 1
  /\ \A i \in 1..Len(c.items) :
       /\ c.items[i].kind = "leaf"
       /\ leaves[c.items[i].id].cls = "SVGFile"
       /\ c.items[i].stretch = 0

\* C1: a root box layout of n flowed leaves with stretch 0, margin m and
\* spacing s, has main-axis size 2m + (sum of the natural main-axis extents)
\* + s(n-1) and cross-axis size 2m + (maximum natural cross-axis extent),
\* and the allotted box of leaf i starts at main-axis offset
\* m + (sum of the extents of the leaves before it) + i*s, cross-axis offset m
C1_RootSizeAndOffsets ==
  \A k \in 1..Len(calls) :
    LET c == calls[k]
        lay == layouts[c.layout]
        d == lay.direction
        m == lay.contents_margins
        n == Len(c.items)
    IN C1_Case(c) =>
         /\ MainOf(d, c.size) =
              QAdd(QAdd(QMul(QI(2), m), SumMain(d, c.items, n)),
                   QMul(lay.spacing, QI(n - 1)))
         /\ CrossOf(d, c.size) = QAdd(QMul(QI(2), m), MaxCross(d, c.items, n))
         /\ \A i \in 1..n :
              c.box_coords[i] =
                AsCoord(d, QAdd(QAdd(m, SumMain(d, c.items, i - 1)),
                                QMul(lay.spacing, QI(i - 1))),
                        m)

\* three leaves of both sizes in a layout with a margin and a spacing
C1_Witness ==
  /\ pc = "rendered"
  /\ \E k \in 1..Len(calls) :
       /\ C1_Case(calls[k])
       /\ Len(calls[k].items) = 3
       /\ layouts[1].contents_margins = QI(1)
       /\ layouts[1].spacing = QI(1)
       /\ leaves[calls[k].items[1].id].orig_width_px
            # leaves[calls[k].items[2].id].orig_width_px

\* the calls C2 is about: a minimum size that leaves slack, and weights
C2_Case(c) ==
  /\ c.min_size # None
  /\ QLt(QI(0), c.dim_unfilled_length)
  /\ c.total_stretch > 0

\* C2: with slack S > 0 and weights w_i summing to W > 0, entry i is
\* allotted its natural main-axis length plus S*w_i/W (its natural length
\* when w_i = 0), and the layout's main-axis size is the target length
C2_ProportionalStretch ==
  \A k \in 1..Len(calls) :
    LET c == calls[k]
        d == layouts[c.layout].direction
    IN C2_Case(c) =>
         /\ \A i \in 1..Len(c.items) :
              MainOf(d, c.new_item_sizes[i]) =
                QAdd(MainOf(d, c.item_sizes[i]),
                     QDiv(QMul(c.dim_unfilled_length, QI(c.items[i].stretch)),
                          QI(c.total_stretch)))
         /\ MainOf(d, c.size) = MainOf(d, c.min_size[1])

\* the calls C3 is about: a minimum size that leaves slack, and no weights
C3_Case(c) ==
  /\ c.min_size # None
  /\ Len(c.items) >= 1
  /\ QLt(QI(0), c.dim_unfilled_length)
  /\ c.total_stretch = 0

\* C3: with slack S > 0 and all weights 0, in both directions the last entry
\* is allotted its natural main-axis length plus S and every other entry its
\* natural main-axis length
C3_SlackToLastEntry ==
  \A k \in 1..Len(calls) :
    LET c == calls[k]
        d == layouts[c.layout].direction
        n == Len(c.items)
    IN C3_Case(c) =>
         \A i \in 1..n :
           MainOf(d, c.new_item_sizes[i]) =
             IF i = n THEN QAdd(MainOf(d, c.item_sizes[i]), c.dim_unfilled_length)
             ELSE MainOf(d, c.item_sizes[i])

\* the sequence s without its i-th element
RemoveAt(s, i) == SubSeq(s, 1, i - 1) \o SubSeq(s, i + 1, Len(s))

\* the size get_size computes for layout L in the current state
SizeNow(lays, L, min_size) ==
  GetSize([leaves |-> leaves, layouts |-> lays, calls |-> <<>>, err |-> NoError],
          L, min_size).size

\* C6: a no-layout entry contributes zero to the measured size: whatever
\* its index, the margin and the spacing, the layout computes (here with no
\* minimum size) the size it computes with that entry removed
C6_NoLayoutAddsNothing ==
  pc = "build" =>
    \A L \in 1..Len(layouts) :
      \A i \in 1..Len(layouts[L].items) :
        IsNoLayout([leaves |-> leaves], layouts[L].items[i]) =>
          SizeNow(layouts, L, None) =
            SizeNow([layouts EXCEPT ![L].items = RemoveAt(@, i)], L, None)

\* C7: after render a no-layout leaf with offset (x, y) is at (x, y) plus
\* the coordinate of the box layout that holds it, whatever its index and
\* its siblings
C7_NoLayoutPosition ==
  pc \in {"rendered", "merged"} =>
    \A L \in 1..Len(layouts) :
      \A i \in 1..Len(layouts[L].items) :
        LET it == layouts[L].items[i] IN
        IsNoLayout([leaves |-> leaves], it) =>
          leaves[it.id].coord =
            Some(<<QAdd(leaves[it.id].x_offset, layouts[L].coord[1]),
                   QAdd(leaves[it.id].y_offset, layouts[L].coord[2])>>)

RECURSIVE AllElems(_)
\* the elements of these subtrees
AllElems(elems) ==
  IF elems = <<>> THEN {}
  ELSE {Head(elems)} \cup AllElems(Head(elems).children) \cup AllElems(Tail(elems))

\* the elements a leaf's source document holds
SourceElems(id) == AllElems(leaves[id].root.children)

\* the elements of the merged output below its root
OutElems ==
  AllElems(out[1].defs \o [k \in 1..Len(out[1].groups) |-> out[1].groups[k].elem])

\* the names an attribute value refers to, as a reader of the output
\* resolves them: the fragment of a value "#name", then the name of every
\* url(#name) in the value, each ending at the first ")"
RefNames(value) ==
  LET urls == SelectSeq([p \in 1..Len(value) |-> p],
                        LAMBDA p : value[p] = URL
                                   /\ \E q \in (p + 1)..Len(value) : value[q] = ")")
      name(p) == LET q == CHOOSE x \in (p + 1)..Len(value) :
                            /\ value[x] = ")"
                            /\ \A y \in (p + 1)..(x - 1) : value[y] # ")"
                 IN SubSeq(value, p + 1, q - 1)
  IN (IF StartsWithHash(value) THEN <<SubSeq(value, 2, Len(value))>> ELSE <<>>)
       \o [j \in 1..Len(urls) |-> name(urls[j])]

Registered == accum.svgfiles \o accum.svgfiles_no_layout

\* C4: after the merge every local reference of a leaf's document to an
\* identifier the same document declares names the rewritten identifier of
\* that target, which no element of another leaf carries
C4_ReferencesResolve ==
  pc = "merged" =>
    \A r \in 1..Len(Registered) :
      \A e \in SourceElems(Registered[r]), t \in SourceElems(Registered[r]) :
        \A e2 \in OutElems, t2 \in OutElems :
          (e2.nid = e.nid /\ t2.nid = t.nid /\ t.id # None) =>
            \A ai \in 1..Len(e.attrs) :
              \A j \in 1..Len(RefNames(e.attrs[ai].value)) :
                RefNames(e.attrs[ai].value)[j] = t.id[1] =>
                  /\ Len(RefNames(e2.attrs[ai].value)) >= j
                  /\ Some(RefNames(e2.attrs[ai].value)[j]) = t2.id
                  /\ \A u \in OutElems : u.id = t2.id => u.nid[1] = t.nid[1]

\* C5: no two elements of the output in the primary namespace carry the
\* same identifier: not two elements of different leaves, and not an element
\* of a leaf and a wrapper group
C5_IdentifiersDistinct ==
  pc = "merged" =>
    \A u \in OutElems, v \in OutElems :
      (u.ns = SVG_NS /\ v.ns = SVG_NS /\ u.nid # v.nid /\ u.id # None) => u.id # v.id

\* two registered leaves bind one prefix to two namespaces
NamespaceConflict ==
  \E i \in 1..Len(Registered), j \in 1..Len(Registered) :
    \E b \in leaves[Registered[i]].root.nsmap, c \in leaves[Registered[j]].root.nsmap :
      b[1] = c[1] /\ b[2] # c[2]

\* C10: the namespace table is built from every registered leaf, flowed or
\* not: the merge fails when two of them bind a prefix differently, and the
\* output root's table holds every binding of every registered leaf
C10_NamespaceTable ==
  pc = "merged" =>
    /\ ~NamespaceConflict
    /\ \A i \in 1..Len(Registered) : leaves[Registered[i]].root.nsmap \subseteq out[1].nsmap

\* the leaf's size is not its natural size
Resized(id) ==
  \/ leaves[id].width_px # leaves[id].orig_width_px
  \/ leaves[id].height_px # leaves[id].orig_height_px

RescaleError == "NotImplementedError: rescaling"

\* C8 as claimed: the merge raises the rescaling error exactly when a flowed
\* leaf's allotted size differs from its natural size and the leaf declares
\* no viewBox; a resized flowed leaf with a viewBox is merged
C8_RescaleErrorOnlyWithoutViewBox ==
  /\ pc = "merged" =>
       \A i \in 1..Len(accum.svgfiles) :
         ~(Resized(accum.svgfiles[i]) /\ leaves[accum.svgfiles[i]].root.viewBox = None)
  /\ err = RescaleError =>
       \E i \in 1..Len(accum.svgfiles) :
         Resized(accum.svgfiles[i]) /\ leaves[accum.svgfiles[i]].root.viewBox = None

\* C8 as amended: the merge raises the rescaling error exactly when a flowed
\* leaf's allotted size differs from its natural size, with or without a
\* viewBox; a no-layout leaf never raises it
C8_RescaleErrorWhenResized ==
  /\ pc = "merged" => \A i \in 1..Len(accum.svgfiles) : ~Resized(accum.svgfiles[i])
  /\ err = RescaleError => \E i \in 1..Len(accum.svgfiles) : Resized(accum.svgfiles[i])

\* the merge refused leaves that all declare a viewBox, and a resized
\* no-layout leaf was registered too
C8_Witness ==
  /\ err = RescaleError
  /\ \A i \in 1..Len(accum.svgfiles) :
       Resized(accum.svgfiles[i]) => leaves[accum.svgfiles[i]].root.viewBox # None
  /\ \E i \in 1..Len(accum.svgfiles_no_layout) : Resized(accum.svgfiles_no_layout[i])

\* the places <<layout, index>> of the entries that hold leaf id
PlacesOf(lays, id) ==
  {p \in (1..Len(lays)) \X (1..MaxItems) :
     /\ p[2] <= Len(lays[p[1]].items)
     /\ lays[p[1]].items[p[2]].kind = "leaf"
     /\ lays[p[1]].items[p[2]].id = id}

\* some leaf is held by two entries
HeldTwice == \E id \in 1..Len(leaves) : Cardinality(PlacesOf(layouts, id)) > 1

ValueErrors == {"ValueError: cannot accumulate SVGFile instance twice",
                "ValueError: cannot accumulate SVGFileNoLayout instance twice"}

\* no step appends to a layout an entry for a leaf that an entry holds
NoDuplicateAppended ==
  \A L \in 1..Len(layouts) :
    LET new == layouts'[L].items[Len(layouts'[L].items)] IN
    ~ /\ Len(layouts'[L].items) = Len(layouts[L].items) + 1
      /\ new.kind = "leaf"
      /\ PlacesOf(layouts, new.id) # {}

\* a rejected registration leaves the accumulator's lists as they were
RejectionKeepsLists ==
  (err = NoError /\ err' \in ValueErrors /\ pc = "rendered") =>
    /\ accum'.svgfiles = accum.svgfiles
    /\ accum'.svgfiles_no_layout = accum.svgfiles_no_layout

NoDuplicateAccumulated ==
  /\ \A i, j \in 1..Len(accum.svgfiles) :
       accum.svgfiles[i] = accum.svgfiles[j] => i = j
  /\ \A i, j \in 1..Len(accum.svgfiles_no_layout) :
       accum.svgfiles_no_layout[i] = accum.svgfiles_no_layout[j] => i = j

\* C9 as claimed: the second addition of a leaf instance, to a box layout or
\* to an accumulator, is rejected at once and changes no list
C9_DuplicateRejectedAtAddition ==
  [][NoDuplicateAppended /\ RejectionKeepsLists]_vars

\* C9 as amended: an accumulator rejects the second registration of a leaf
\* at once and keeps its lists; a box layout appends the second entry, and a
\* render of a tree that holds a leaf twice ends with that rejection
C9_DuplicateRejectedAtRegistration ==
  /\ [][RejectionKeepsLists]_vars
  /\ [](NoDuplicateAccumulated /\ (pc \in {"rendered", "merged"} => ~HeldTwice))

\* a layout held a leaf twice and the render was ended by the rejection
C9_Witness == HeldTwice /\ pc = "error" /\ err \in ValueErrors /\ accum.size # None

\* C11: in every run of save (and of main) the output destination is not
\* opened, truncated or written before render and merge have both completed
\* without error, and it is untouched when render or merge raised
C11_NoOutputBeforeMerge ==
  /\ fd # "untouched" => (out # None /\ err = NoError)
  /\ pc = "error" => fd = "untouched"

RECURSIVE EntryOrder(_, _)
\* the leaves of layout L from its entry i on, in depth-first entry order
EntryOrder(L, i) ==
  IF i > Len(layouts[L].items) THEN <<>>
  ELSE (IF IsLayoutItem(layouts[L].items[i])
          THEN EntryOrder(layouts[L].items[i].id, 1)
          ELSE <<layouts[L].items[i].id>>)
       \o EntryOrder(L, i + 1)

\* the flowed leaves, then the no-layout leaves, each in entry order
NumberingOrder ==
  SelectSeq(EntryOrder(1, 1), LAMBDA id : leaves[id].cls = "SVGFile")
    \o SelectSeq(EntryOrder(1, 1), LAMBDA id : leaves[id].cls = "SVGFileNoLayout")

HasPrefix(prefix, value) ==
  Len(value) >= Len(prefix) /\ SubSeq(value, 1, Len(prefix)) = prefix

\* C12: after render and merge the children of the output root are the
\* definitions container, the wrappers of the flowed leaves in depth-first
\* entry order numbered 0..k-1, the wrappers of the no-layout leaves numbered
\* k..n-1, then the raw fragments in recorded order; a wrapper's number is
\* the one in the identifier prefix of its leaf, and numbers are not shared
C12_OutputOrder ==
  out # None =>
    LET ch == RootChildren(out[1])
        n == Len(NumberingOrder)
        raw == accum.raw_elements
    IN /\ Len(ch) = 1 + n + Len(raw)
       /\ ch[1].role = "defs"
       /\ \A i \in 1..n :
            /\ ch[1 + i].role = "g"
            /\ ch[1 + i].num = i - 1
            /\ ch[1 + i].leaf = NumberingOrder[i]
            /\ \A e \in OutElems :
                 (e.nid[1] = NumberingOrder[i] /\ e.id # None)
                   => HasPrefix(fix_id_prefix(i - 1), e.id[1])
       /\ \A i, j \in 1..n : ch[1 + i].leaf = ch[1 + j].leaf => i = j
       /\ \A j \in 1..Len(raw) : ch[1 + n + j] = raw[j]

\* a merged document of a flowed leaf inside a nested layout, a no-layout
\* leaf entered before it, and a recorded raw fragment
C12_Witness ==
  /\ out # None
  /\ Len(layouts) = 2
  /\ \E i, j \in 1..Len(EntryOrder(1, 1)) :
       /\ i < j
       /\ leaves[EntryOrder(1, 1)[i]].cls = "SVGFileNoLayout"
       /\ leaves[EntryOrder(1, 1)[j]].cls = "SVGFile"
       /\ \E k \in 1..Len(layouts[2].items) : layouts[2].items[k].id = EntryOrder(1, 1)[j]
  /\ accum.raw_elements # <<>>

\* C13: after any render pass every no-layout leaf has its natural size, and
\* the scale factors of its wrapper's transform are its natural size over
\* the extent of its viewBox
C13_NoLayoutKeepsNaturalSize ==
  /\ \A id \in 1..Len(leaves) : leaves[id].cls = "SVGFileNoLayout" => ~Resized(id)
  /\ out # None =>
       \A k \in 1..Len(out[1].groups) :
         LET g == out[1].groups[k]
             vb == leaves[g.leaf].root.viewBox
         IN (leaves[g.leaf].cls = "SVGFileNoLayout" /\ vb # None) =>
              /\ g.transform.sx = QDiv(leaves[g.leaf].orig_width_px, vb[1][3])
              /\ g.transform.sy = QDiv(leaves[g.leaf].orig_height_px, vb[1][4])

\* the heap of the current state, as get_size takes it
Heap == [leaves |-> leaves, layouts |-> layouts, calls |-> <<>>, err |-> NoError]

\* the heap after pass 1 of get_size of layout L with this minimum size
AfterPass1(L, min_size) ==
  LET lay == layouts[L]
      orth0 == CrossOf(lay.direction, min_size)
  IN Pass1(Heap, L,
           IF Horizontal(lay.direction) THEN Size(QI(0), orth0) ELSE Size(orth0, QI(0)),
           1,
           [cum_dim |-> lay.contents_margins, max_orth_dim |-> orth0,
            item_sizes |-> <<>>]).st

\* pass 1 leaves every stored position and size as it was
C14_Pass1WritesNothing ==
  \A L \in 1..Len(layouts) :
    \A m \in LayoutMinSizes :
      LET min_size == IF m = None THEN Size(QI(0), QI(0)) ELSE m[1]
      IN /\ AfterPass1(L, min_size).leaves = leaves
         /\ AfterPass1(L, min_size).layouts = layouts

\* the same query asked twice returns the same size
C14_SameSizeTwice ==
  \A L \in 1..Len(layouts) :
    \A m \in LayoutMinSizes :
      GetSize(GetSize(Heap, L, m).st, L, m).size = GetSize(Heap, L, m).size

\* a leaf reports after a placement step the size it reported before
C14_LeafSizeKept ==
  \A m \in LayoutMinSizes :
    \A id \in 1..Len(leaves) :
      LeafGetSize(GetSize(Heap, 1, m).st.leaves[id]) = LeafGetSize(leaves[id])

\* C14: a measurement query writes nothing and is repeatable: pass 1 of a
\* layout, with the sizing of nested layouts it triggers, changes no stored
\* position or size; the same query twice returns the same size; a leaf
\* reports the same size before and after a placement step
C14_MeasurementIsPure ==
  pc = "build" =>
    /\ C14_Pass1WritesNothing
    /\ C14_SameSizeTwice
    /\ C14_LeafSizeKept

\* the image of the point <<x, y>> under matrix(sx,0,0,sy,tx,ty), resp.
\* translate(tx,ty)
Apply(t, x, y) == <<QAdd(QMul(t.sx, x), t.tx), QAdd(QMul(t.sy, y), t.ty)>>

\* C15: the transform of a leaf with viewBox (minx, miny, w, h), final
\* position (px, py) and final size (W, H) maps (minx, miny) to (px, py) and
\* (minx+w, miny+h) to (px+W, py+H); without a viewBox the transform is the
\* translation by (px, py)
C15_TransformMapsViewBox ==
  out # None =>
    \A k \in 1..Len(out[1].groups) :
      LET g == out[1].groups[k]
          lf == leaves[g.leaf]
          vb == lf.root.viewBox
          px == lf.coord[1][1]
          py == lf.coord[1][2]
      IN IF vb # None
           THEN /\ Apply(g.transform, vb[1][1], vb[1][2]) = <<px, py>>
                /\ Apply(g.transform, QAdd(vb[1][1], vb[1][3]), QAdd(vb[1][2], vb[1][4]))
                     = <<QAdd(px, lf.width_px), QAdd(py, lf.height_px)>>
           ELSE /\ g.transform.kind = "translate"
                /\ g.transform.tx = px
                /\ g.transform.ty = py

DirectionError == "NotImplementedError: direction"

Reversed(direction) == direction \in {RightToLeft, BottomToTop}

\* the forward direction along the same axis
ForwardOf(direction) == IF Horizontal(direction) THEN LeftToRight ELSE TopToBottom

\* the current heap with layout L turned to its forward direction
ForwardHeap(L) == [Heap EXCEPT !.layouts[L].direction = ForwardOf(@)]

\* C16 as claimed: a layout of a reversed direction is sized and placed
\* without error, and its size and the positions and sizes of its children
\* are those the forward direction of the same axis computes
C16_ReversedLikeForward ==
  /\ err # DirectionError
  /\ pc = "build" =>
       \A L \in 1..Len(layouts) :
         Reversed(layouts[L].direction) =>
           /\ GetSize(Heap, L, None).st.err = NoError
           /\ GetSize(Heap, L, None).size = GetSize(ForwardHeap(L), L, None).size
           /\ GetSize(Heap, L, None).st.leaves = GetSize(ForwardHeap(L), L, None).st.leaves

\* C16 as amended: a reversed direction is accepted when the layout is made
\* and filled; rendering it raises the direction error exactly when it has
\* an entry, and then no leaf has been positioned or resized; rendered with
\* no entry it has the size the forward direction computes
C16_ReversedRaisesWhenFilled ==
  /\ pc \in {"rendered", "error"} =>
       (err = DirectionError
          <=> (Reversed(layouts[1].direction) /\ layouts[1].items # <<>>))
  /\ err = DirectionError =>
       \A id \in 1..Len(leaves) : leaves[id].coord = None /\ ~Resized(id)
  /\ (pc = "rendered" /\ Reversed(layouts[1].direction)) =>
       layouts[1].size = Some(GetSize(ForwardHeap(1), 1, None).size)

\* a reversed layout with two entries was rendered and refused
C16_Witness ==
  /\ pc = "error"
  /\ err = DirectionError
  /\ Reversed(layouts[1].direction)
  /\ Len(layouts[1].items) >= 2

====
